---------------------------- MODULE Spec2Model ----------------------------
(***************************************************************************)
(* A model of dotman (Snupai/cli-config-manager): the manager package      *)
(* (ListFiles, AddFile, Link, the git bridge, backup/restore) and the      *)
(* health scanner, over an explicit file system with directories, regular  *)
(* files and symbolic links.                                               *)
(*                                                                         *)
(* Paths are sequences of names, <<>> being "/".  A symbolic link holds    *)
(* an absolute, clean target path.  The file-system primitives follow the  *)
(* Go os package on Linux: Stat/ReadFile/WriteFile follow symbolic links   *)
(* in every component, Lstat/Readlink/Remove/RemoveAll/Symlink/Mkdir       *)
(* follow them in every component but the last.  File permissions are not  *)
(* modelled: every entry is readable and writable.                         *)
(***************************************************************************)
EXTENDS Integers, Sequences, FiniteSets, TLC

VARIABLES
    fs,        \* the file system: [Paths -> Node]
    cwd,       \* the working directory the tool is started in
    gitDir,    \* TRUE iff DotmanDir/.git exists (what isGitRepo looks at)
    backups,   \* DotmanDir/backups: whether it exists, and its per-id directories
    clock,     \* the wall clock, in seconds
    last,      \* the last operation run: its name, argument and outcome
    out,       \* the sequence the last operation returned (ListFiles)
    results,   \* the HealthCheckResults the last operation produced
    calls,     \* the external commands the last operation invoked, in order
    linkRuns   \* the Link runs in progress side by side, each at its step

vars == <<fs, cwd, gitDir, backups, clock, last, out, results, calls, linkRuns>>

---------------------------------------------------------------------------
(* Bounds of the model.                                                    *)

\* File contents are the numbers 1..MaxContent.
MaxContent == 2
\* Symbolic links followed in one path resolution before ELOOP.
MaxSymlinks == 3
\* The clock runs from 1 to MaxClock.
MaxClock == 2

Contents == 1..MaxContent

---------------------------------------------------------------------------
(* Paths: config.Config and the bounded universe of file-system entries.   *)

HomeDir == <<"home">>
DotmanDir == HomeDir \o <<".dotman">>
ConfigsDir == DotmanDir \o <<"configs">>

\* A directory outside the home root, and a file in it.
OutsideDir == <<"etc">>
OutsideFile == OutsideDir \o <<"a">>

\* The relative paths of the files the model tracks: one at the top level,
\* one name that may be a file or a directory, one nested file.
RelPaths == {<<"a">>, <<"d">>, <<"d", "a">>}

HomePaths == {HomeDir \o r : r \in RelPaths}
StorePaths == {ConfigsDir \o r : r \in RelPaths}
\* Where AddFile puts the copy of OutsideFile (Join cleans the "..").
StrayPaths == {DotmanDir \o <<"etc">>, DotmanDir \o <<"etc", "a">>}

\* A file that the walk of the store reaches after every file of RelPaths,
\* and its stored copy.
LateHome == HomeDir \o <<"e">>
LatePaths == {LateHome, ConfigsDir \o <<"e">>}

\* The files InitializeGitRepo writes at the top of the store.
GitFiles == {DotmanDir \o <<".gitignore">>, DotmanDir \o <<"README.md">>}

\* Where saveHealthCheckResults writes: DotmanDir/health, and in it one
\* file per second of the clock.
HealthDir == DotmanDir \o <<"health">>
HealthFile(now) == HealthDir \o <<ToString(now)>>
HealthPaths == {HealthDir} \cup {HealthFile(i) : i \in 1..MaxClock}

\* Directories that always exist.
FixedDirs == {<<>>, HomeDir, DotmanDir, ConfigsDir, OutsideDir}

Paths ==
    FixedDirs \cup HomePaths \cup StorePaths \cup StrayPaths \cup GitFiles \cup HealthPaths
        \cup {OutsideFile} \cup LatePaths

\* Byte order of the names, as filepath.Walk sorts directory entries.
NameOrder ==
    <<".dotman", ".gitignore", "README.md", "a", "configs", "d", "e", "etc", "home">>

NoNode == [kind |-> "none", content |-> 0, target |-> <<>>]
DirNode == [kind |-> "dir", content |-> 0, target |-> <<>>]
FileNode(c) == [kind |-> "file", content |-> c, target |-> <<>>]
LinkNode(t) == [kind |-> "link", content |-> 0, target |-> t]

\* K applied to v: the way the model names a value it uses more than once.
With(v, K(_)) == K(v)

IsPrefix(p, q) == Len(p) <= Len(q) /\ SubSeq(q, 1, Len(p)) = p

\* filepath.Dir of a clean absolute path.
Dir(p) == IF p = <<>> THEN <<>> ELSE SubSeq(p, 1, Len(p) - 1)

\* filepath.Clean of an absolute path given as components: ".." pops.
RECURSIVE CleanFrom(_, _)
CleanFrom(acc, rest) ==
    IF rest = <<>> THEN acc
    ELSE IF Head(rest) = ".."
         THEN CleanFrom(Dir(acc), Tail(rest))
         ELSE CleanFrom(Append(acc, Head(rest)), Tail(rest))

\* filepath.Join(base, rel): concatenate, then Clean.
Join(base, rel) == CleanFrom(<<>>, base \o rel)

RECURSIVE CommonLen(_, _)
CommonLen(p, q) ==
    IF p = <<>> \/ q = <<>> \/ Head(p) # Head(q) THEN 0
    ELSE 1 + CommonLen(Tail(p), Tail(q))

\* filepath.Rel(base, targ) of two clean absolute paths: it never fails on
\* Unix; a target outside base comes back with leading ".." components.
Rel(base, targ) ==
    LET k == CommonLen(base, targ)
    IN  [i \in 1..(Len(base) - k) |-> ".."] \o SubSeq(targ, k + 1, Len(targ))

---------------------------------------------------------------------------
(* The os package.                                                          *)

\* Path resolution.  cur is the directory reached so far, rest the
\* components left; follow says whether a symbolic link in the last
\* component is followed.  On ENOENT of the last component, path is the
\* entry that a create would make.
RECURSIVE Resolve(_, _, _, _, _)
Resolve(f, cur, rest, follow, fuel) ==
    IF rest = <<>> THEN [err |-> "ok", path |-> cur]
    ELSE
      LET cand == Append(cur, Head(rest))
          final == Len(rest) = 1
          node == IF cand \in Paths THEN f[cand] ELSE NoNode
      IN  CASE node.kind = "none" ->
                 [err |-> "ENOENT", path |-> IF final THEN cand ELSE <<>>]
            [] node.kind = "dir" ->
                 Resolve(f, cand, Tail(rest), follow, fuel)
            [] node.kind = "file" ->
                 IF final THEN [err |-> "ok", path |-> cand]
                 ELSE [err |-> "ENOTDIR", path |-> <<>>]
            [] node.kind = "link" ->
                 IF final /\ ~follow THEN [err |-> "ok", path |-> cand]
                 ELSE IF fuel = 0 THEN [err |-> "ELOOP", path |-> <<>>]
                 ELSE Resolve(f, <<>>, node.target \o Tail(rest), follow, fuel - 1)

\* os.Stat: follows symbolic links.
Stat(f, p) ==
    With(Resolve(f, <<>>, p, TRUE, MaxSymlinks), LAMBDA r :
    [err |-> r.err,
         kind |-> IF r.err = "ok" THEN f[r.path].kind ELSE "none"])

\* os.Lstat: does not follow a symbolic link in the last component.
Lstat(f, p) ==
    With(Resolve(f, <<>>, p, FALSE, MaxSymlinks), LAMBDA r :
    [err |-> r.err,
         kind |-> IF r.err = "ok" THEN f[r.path].kind ELSE "none"])

\* os.IsNotExist: true of ENOENT only (not of ENOTDIR or ELOOP).
IsNotExist(err) == err = "ENOENT"

\* os.ReadFile.
ReadFile(f, p) ==
    With(Resolve(f, <<>>, p, TRUE, MaxSymlinks), LAMBDA r :
    IF r.err # "ok" THEN [err |-> r.err, data |-> 0]
        ELSE IF f[r.path].kind = "file"
             THEN [err |-> "ok", data |-> f[r.path].content]
             ELSE [err |-> "EISDIR", data |-> 0])

\* os.WriteFile: open(O_WRONLY|O_CREATE|O_TRUNC) follows symbolic links,
\* a dangling one included, and writes the file they lead to.
WriteFile(f, p, data) ==
    With(Resolve(f, <<>>, p, TRUE, MaxSymlinks), LAMBDA r :
    CASE r.err = "ok" /\ f[r.path].kind = "file" ->
               [err |-> "ok", fs |-> [f EXCEPT ![r.path] = FileNode(data)]]
          [] r.err = "ok" /\ f[r.path].kind # "file" ->
               [err |-> "EISDIR", fs |-> f]
          [] r.err = "ENOENT" /\ r.path # <<>> ->
               IF r.path \in Paths
               THEN [err |-> "ok", fs |-> [f EXCEPT ![r.path] = FileNode(data)]]
               ELSE [err |-> "EUNIVERSE", fs |-> f]
          [] OTHER -> [err |-> r.err, fs |-> f])

\* os.Mkdir.
Mkdir(f, p) ==
    With(Resolve(f, <<>>, p, FALSE, MaxSymlinks), LAMBDA r :
    CASE r.err = "ok" -> [err |-> "EEXIST", fs |-> f]
          [] r.err = "ENOENT" /\ r.path # <<>> ->
               IF r.path \in Paths
               THEN [err |-> "ok", fs |-> [f EXCEPT ![r.path] = DirNode]]
               ELSE [err |-> "EUNIVERSE", fs |-> f]
          [] OTHER -> [err |-> r.err, fs |-> f])

\* os.MkdirAll: nil when Stat finds a directory, ENOTDIR when it finds
\* anything else; otherwise make the parent, then Mkdir.
RECURSIVE MkdirAll(_, _)
MkdirAll(f, p) ==
    With(Stat(f, p), LAMBDA st :
    IF st.err = "ok"
    THEN IF st.kind = "dir" THEN [err |-> "ok", fs |-> f]
         ELSE [err |-> "ENOTDIR", fs |-> f]
    ELSE
    With(IF Len(p) > 1 THEN MkdirAll(f, Dir(p)) ELSE [err |-> "ok", fs |-> f], LAMBDA up :
    IF up.err # "ok" THEN up
    ELSE
    With(Mkdir(up.fs, p), LAMBDA mk :
    IF mk.err = "ok" THEN mk
    ELSE
    With(Lstat(up.fs, p), LAMBDA ls :
    IF ls.err = "ok" /\ ls.kind = "dir" THEN [err |-> "ok", fs |-> up.fs]
    ELSE mk))))

\* The entries below (and including) p.
Subtree(p) == {q \in Paths : IsPrefix(p, q)}

HasChildren(f, p) == \E q \in Subtree(p) : q # p /\ f[q].kind # "none"

\* os.Remove: unlink, or rmdir of an empty directory.
Remove(f, p) ==
    With(Resolve(f, <<>>, p, FALSE, MaxSymlinks), LAMBDA r :
    IF r.err # "ok" THEN [err |-> r.err, fs |-> f]
        ELSE IF f[r.path].kind = "dir" /\ HasChildren(f, r.path)
             THEN [err |-> "ENOTEMPTY", fs |-> f]
             ELSE [err |-> "ok", fs |-> [f EXCEPT ![r.path] = NoNode]])

\* os.RemoveAll: removes the entry and everything below it; a symbolic
\* link is removed itself, never followed; a missing entry is no error.
RemoveAll(f, p) ==
    With(Resolve(f, <<>>, p, FALSE, MaxSymlinks), LAMBDA r :
    CASE r.err = "ok" ->
               [err |-> "ok",
                fs |-> [q \in Paths |-> IF q \in Subtree(r.path) THEN NoNode ELSE f[q]]]
          [] IsNotExist(r.err) -> [err |-> "ok", fs |-> f]
          [] OTHER -> [err |-> r.err, fs |-> f])

\* os.Symlink(target, linkpath).
Symlink(f, target, linkpath) ==
    With(Resolve(f, <<>>, linkpath, FALSE, MaxSymlinks), LAMBDA r :
    CASE r.err = "ok" -> [err |-> "EEXIST", fs |-> f]
          [] r.err = "ENOENT" /\ r.path # <<>> ->
               IF r.path \in Paths
               THEN [err |-> "ok", fs |-> [f EXCEPT ![r.path] = LinkNode(target)]]
               ELSE [err |-> "EUNIVERSE", fs |-> f]
          [] OTHER -> [err |-> r.err, fs |-> f])

\* os.Readlink.
Readlink(f, p) ==
    With(Resolve(f, <<>>, p, FALSE, MaxSymlinks), LAMBDA r :
    IF r.err # "ok" THEN [err |-> r.err, target |-> <<>>]
        ELSE IF f[r.path].kind = "link"
             THEN [err |-> "ok", target |-> f[r.path].target]
             ELSE [err |-> "EINVAL", target |-> <<>>])

---------------------------------------------------------------------------
(* filepath.Walk.                                                           *)

\* readDirNames: the names in a directory, sorted.
ReadDirNames(f, dir) ==
    SelectSeq(NameOrder,
              LAMBDA n : Append(dir, n) \in Paths /\ f[Append(dir, n)].kind # "none")

\* The non-directory entries that a read-only Walk hands to its callback,
\* in order.  Walk uses Lstat: a symbolic link is an entry, never entered.
RECURSIVE WalkPath(_, _)
RECURSIVE WalkNames(_, _, _)
WalkPath(f, path) ==
    IF f[path].kind # "dir" THEN <<path>>
    ELSE WalkNames(f, path, ReadDirNames(f, path))
WalkNames(f, dir, names) ==
    IF names = <<>> THEN <<>>
    ELSE WalkPath(f, Append(dir, Head(names))) \o WalkNames(f, dir, Tail(names))

\* filepath.Walk(root, fn) for a callback that changes nothing and returns
\* nil: the error of Lstat(root), and the entries visited.
Walk(f, root) ==
    With(Lstat(f, root), LAMBDA st :
    IF st.err # "ok" THEN [err |-> st.err, visited |-> <<>>]
        ELSE [err |-> "ok", visited |-> WalkPath(f, root)])

Range(s) == {s[i] : i \in 1..Len(s)}

---------------------------------------------------------------------------
(* manager: ListFiles, AddFile, Link.                                       *)

\* ListFiles as it would be with os.ReadDir in place of filepath.Walk: the
\* entries of ConfigsDir itself, subdirectories not entered.
ListFiles_TopLevel(f) ==
    LET names == SelectSeq(ReadDirNames(f, ConfigsDir),
                           LAMBDA n : f[Append(ConfigsDir, n)].kind # "dir")
    IN  [err |-> "ok", files |-> [i \in 1..Len(names) |-> <<names[i]>>]]

\* Manager.ListFiles.
ListFiles(f) ==
    With(Walk(f, ConfigsDir), LAMBDA w :
    [err |-> w.err,
         files |-> [i \in 1..Len(w.visited) |-> Rel(ConfigsDir, w.visited[i])]])

\* copyFile as it would be if it opened src, created dst (which truncates
\* it) and then copied the bytes across.
copyFile_CreateFirst(f, src, dst) ==
    With(ReadFile(f, src), LAMBDA rd :
    IF rd.err # "ok" THEN [err |-> rd.err, fs |-> f]
    ELSE
    With(WriteFile(f, dst, 0), LAMBDA cr :
    IF cr.err # "ok" THEN cr
    ELSE WriteFile(cr.fs, dst, ReadFile(cr.fs, src).data)))

\* copyFile(src, dst): ReadFile, then WriteFile.
copyFile(f, src, dst) ==
    With(ReadFile(f, src), LAMBDA rd :
    IF rd.err # "ok" THEN [err |-> rd.err, fs |-> f]
    ELSE WriteFile(f, dst, rd.data))

\* What the three git commands at the end of AddFile can do.
GitAddOutcomes == {"add fails", "status fails", "clean", "commit fails", "committed"}

\* The commands AddFile runs after linking, and the error it returns.
AddFileGit(g) ==
    CASE g = "add fails" -> [err |-> "git add", calls |-> <<"git add">>]
      [] g = "status fails" -> [err |-> "git status", calls |-> <<"git add", "git status">>]
      [] g = "clean" -> [err |-> "ok", calls |-> <<"git add", "git status">>]
      [] g = "commit fails" ->
           [err |-> "git commit", calls |-> <<"git add", "git status", "git commit">>]
      [] OTHER -> [err |-> "ok", calls |-> <<"git add", "git status", "git commit">>]

\* Manager.AddFile(filePath) for an absolute filePath; g is what git does.
AddFile(f, absPath, g) ==
    LET relPath == Rel(HomeDir, absPath)
        targetDir == Join(ConfigsDir, Dir(relPath))
        targetPath == Join(ConfigsDir, relPath)
        fail(e, ff) == [err |-> e, fs |-> ff, calls |-> <<>>]
    IN  IF IsNotExist(Stat(f, absPath).err) THEN fail("file does not exist", f)
        ELSE
        With(MkdirAll(f, targetDir), LAMBDA m1 :
        IF m1.err # "ok" THEN fail("error creating target directory", m1.fs)
        ELSE
        With(copyFile(m1.fs, absPath, targetPath), LAMBDA cp :
        IF cp.err # "ok" THEN fail("error copying file", cp.fs)
        ELSE
        With(MkdirAll(cp.fs, Dir(absPath)), LAMBDA m2 :
        IF m2.err # "ok" THEN fail("error creating parent directories", m2.fs)
        ELSE
        With(RemoveAll(m2.fs, absPath), LAMBDA rm :
        IF rm.err # "ok" THEN fail("error removing existing file", rm.fs)
        ELSE
        With(Symlink(rm.fs, targetPath, absPath), LAMBDA sl :
        IF sl.err # "ok" THEN fail("error creating symbolic link", sl.fs)
        ELSE [err |-> AddFileGit(g).err, fs |-> sl.fs, calls |-> AddFileGit(g).calls])))))

\* The callback of Link as it would be if it left an occupied mirrored
\* path alone instead of removing the occupant.
LinkOne_KeepExisting(f, path) ==
    With(Join(HomeDir, Rel(ConfigsDir, path)), LAMBDA targetPath :
    With(MkdirAll(f, Dir(targetPath)), LAMBDA m1 :
    IF m1.err # "ok" THEN m1
    ELSE IF Lstat(m1.fs, targetPath).err = "ok" THEN m1
    ELSE Symlink(m1.fs, path, targetPath)))

\* The callback of Link for one non-directory entry of the store.
LinkOne(f, path) ==
    With(Join(HomeDir, Rel(ConfigsDir, path)), LAMBDA targetPath :
    With(MkdirAll(f, Dir(targetPath)), LAMBDA m1 :
    IF m1.err # "ok" THEN m1
    ELSE
    With(RemoveAll(m1.fs, targetPath), LAMBDA rm :
    IF rm.err # "ok" THEN rm
    ELSE Symlink(rm.fs, path, targetPath))))

\* The walk of Link as it would be if it went on to the next entry after an
\* entry failed, and returned the first error at the end.
RECURSIVE LinkNames_KeepsGoing(_, _, _)
LinkNames_KeepsGoing(f, dir, names) ==
    IF names = <<>> THEN [err |-> "ok", fs |-> f]
    ELSE
    With(Append(dir, Head(names)), LAMBDA p :
    With(CASE f[p].kind = "none" -> [err |-> "ENOENT", fs |-> f]
           [] f[p].kind = "dir" -> LinkNames_KeepsGoing(f, p, ReadDirNames(f, p))
           [] OTHER -> LinkOne(f, p),
         LAMBDA r :
    With(LinkNames_KeepsGoing(r.fs, dir, Tail(names)), LAMBDA rest :
    [err |-> IF r.err # "ok" THEN r.err ELSE rest.err, fs |-> rest.fs])))

\* Manager.Link: the Walk whose callback links.  The names of a directory
\* are read before its entries are visited; each entry is Lstat'ed when its
\* turn comes, and the first error ends the walk.
RECURSIVE LinkNames(_, _, _)
LinkNames(f, dir, names) ==
    IF names = <<>> THEN [err |-> "ok", fs |-> f]
    ELSE
    With(Append(dir, Head(names)), LAMBDA p :
    With(CASE f[p].kind = "none" -> [err |-> "ENOENT", fs |-> f]
           [] f[p].kind = "dir" -> LinkNames(f, p, ReadDirNames(f, p))
           [] OTHER -> LinkOne(f, p),
         LAMBDA r :
    IF r.err # "ok" THEN r ELSE LinkNames(r.fs, dir, Tail(names))))

Link(f) ==
    With(Lstat(f, ConfigsDir), LAMBDA st :
    CASE st.err # "ok" -> [err |-> st.err, fs |-> f]
          [] st.kind # "dir" -> LinkOne(f, ConfigsDir)
          [] OTHER -> LinkNames(f, ConfigsDir, ReadDirNames(f, ConfigsDir)))

\* The tracked files: the non-directory entries under ConfigsDir.
Tracked(f) == {p \in Paths : /\ p # ConfigsDir
                             /\ IsPrefix(ConfigsDir, p)
                             /\ f[p].kind \in {"file", "link"}}

\* The mirrored path of a stored path.
Mirror(p) == HomeDir \o SubSeq(p, Len(ConfigsDir) + 1, Len(p))

\* What occupies a mirrored path, as the claims name the cases.
Occupant(f, p) ==
    With(Lstat(f, Mirror(p)), LAMBDA st :
    CASE st.err # "ok" -> "nothing"
          [] st.kind = "link" ->
               IF Readlink(f, Mirror(p)).target = p THEN "linked" ELSE "other link"
          [] OTHER -> st.kind)

---------------------------------------------------------------------------
(* manager: BackupFile and RestoreBackup.                                   *)

\* A path as the tool is given it or stores it: absolute or relative to
\* the working directory.  The empty string is relative with no component.
AbsStr(p) == [abs |-> TRUE, comps |-> p]
RelStr(r) == [abs |-> FALSE, comps |-> r]
EmptyStr == RelStr(<<>>)

\* The absolute path that the string s names in working directory wd.
At(wd, s) == IF s.abs THEN s.comps ELSE Join(wd, s.comps)

\* filepath.Dir of a path string.
DirStr(s) == [abs |-> s.abs, comps |-> Dir(s.comps)]

\* Backup identifiers: time.Now().Format("2006-01-02-150405"), one per
\* second of the clock.
Ids == 1..MaxClock

\* metadata.json as json.MarshalIndent writes a BackupMetadata: the field
\* symlink_path is left out when SymlinkPath is empty (omitempty); it is
\* modelled as a sequence of no or one value.
Marshal(m) ==
    [id |-> m.ID, original_path |-> m.OriginalPath, timestamp |-> m.Timestamp,
     symlink_path |-> IF m.SymlinkPath = EmptyStr THEN <<>> ELSE <<m.SymlinkPath>>]

\* json.Unmarshal into a BackupMetadata: an absent field leaves "".
Unmarshal(j) ==
    [ID |-> j.id, OriginalPath |-> j.original_path, Timestamp |-> j.timestamp,
     SymlinkPath |-> IF j.symlink_path = <<>> THEN EmptyStr ELSE j.symlink_path[1]]

NoJSON == [id |-> 0, original_path |-> EmptyStr, timestamp |-> 0, symlink_path |-> <<>>]

\* A per-backup directory: the content file (data 0 when the file is
\* missing) and the metadata file ("missing", "malformed" or "json").
NoBackupDir == [present |-> FALSE, content |-> 0, meta |-> "missing", json |-> NoJSON]

NoBackups == [exists |-> FALSE, dirs |-> [i \in Ids |-> NoBackupDir]]

\* BackupFile as it would be if it gave every backup the same identifier.
BackupFile_FixedId(f, bk, wd, now, filePath) ==
    With([bk EXCEPT !.exists = TRUE], LAMBDA made :
    With(ReadFile(f, At(wd, filePath)), LAMBDA rd :
    IF rd.err # "ok"
    THEN [err |-> "failed to read file", backups |-> made, id |-> 0]
    ELSE
    With(Readlink(f, At(wd, filePath)), LAMBDA rl :
    With([ID |-> 1, OriginalPath |-> filePath, Timestamp |-> now,
          SymlinkPath |-> IF rl.err = "ok" THEN AbsStr(rl.target) ELSE EmptyStr],
         LAMBDA backup :
    [err |-> "ok",
     backups |-> [made EXCEPT !.dirs[backup.ID] =
                     [present |-> TRUE, content |-> rd.data,
                      meta |-> "json", json |-> Marshal(backup)]],
     id |-> backup.ID]))))

\* Manager.BackupFile(filePath), run in working directory wd at time now.
BackupFile(f, bk, wd, now, filePath) ==
    With([bk EXCEPT !.exists = TRUE], LAMBDA made :
    With(ReadFile(f, At(wd, filePath)), LAMBDA rd :
    IF rd.err # "ok"
    THEN [err |-> "failed to read file", backups |-> made, id |-> 0]
    ELSE
    With(Readlink(f, At(wd, filePath)), LAMBDA rl :
    With([ID |-> now, OriginalPath |-> filePath, Timestamp |-> now,
          SymlinkPath |-> IF rl.err = "ok" THEN AbsStr(rl.target) ELSE EmptyStr],
         LAMBDA backup :
    [err |-> "ok",
     backups |-> [made EXCEPT !.dirs[backup.ID] =
                     [present |-> TRUE, content |-> rd.data,
                      meta |-> "json", json |-> Marshal(backup)]],
     id |-> backup.ID]))))

\* RestoreBackup as it would be with the arguments of os.Symlink swapped.
RestoreBackup_SwappedSymlink(f, bk, wd, backupID) ==
    With(bk.dirs[backupID], LAMBDA d :
    With(Unmarshal(d.json), LAMBDA backup :
    With(At(wd, backup.OriginalPath), LAMBDA original :
    CASE ~(bk.exists /\ d.present) \/ d.meta = "missing" ->
           [err |-> "failed to read backup metadata", fs |-> f]
      [] d.meta = "malformed" -> [err |-> "failed to parse backup metadata", fs |-> f]
      [] d.content = 0 -> [err |-> "failed to read backup content", fs |-> f]
      [] OTHER ->
    With(MkdirAll(f, At(wd, DirStr(backup.OriginalPath))), LAMBDA m1 :
    IF m1.err # "ok" THEN [err |-> "failed to create parent directory", fs |-> m1.fs]
    ELSE
    With(WriteFile(m1.fs, original, d.content), LAMBDA wr :
    IF wr.err # "ok" THEN [err |-> "failed to restore file", fs |-> wr.fs]
    ELSE IF backup.SymlinkPath = EmptyStr THEN [err |-> "ok", fs |-> wr.fs]
    ELSE
    With(Remove(wr.fs, original), LAMBDA rm :
    IF rm.err # "ok" /\ ~IsNotExist(rm.err)
    THEN [err |-> "failed to remove existing file", fs |-> rm.fs]
    ELSE
    With(Symlink(rm.fs, original, backup.SymlinkPath.comps), LAMBDA sl :
    IF sl.err # "ok" THEN [err |-> "failed to restore symlink", fs |-> sl.fs]
    ELSE [err |-> "ok", fs |-> sl.fs])))))))

\* RestoreBackup as it would be if it ignored the error of reading the
\* content file, and restored the no bytes it got.
RestoreBackup_IgnoresContentError(f, bk, wd, backupID) ==
    With(bk.dirs[backupID], LAMBDA d :
    With(Unmarshal(d.json), LAMBDA backup :
    With(At(wd, backup.OriginalPath), LAMBDA original :
    CASE ~(bk.exists /\ d.present) \/ d.meta = "missing" ->
           [err |-> "failed to read backup metadata", fs |-> f]
      [] d.meta = "malformed" -> [err |-> "failed to parse backup metadata", fs |-> f]
      [] OTHER ->
    With(MkdirAll(f, At(wd, DirStr(backup.OriginalPath))), LAMBDA m1 :
    IF m1.err # "ok" THEN [err |-> "failed to create parent directory", fs |-> m1.fs]
    ELSE
    With(WriteFile(m1.fs, original, d.content), LAMBDA wr :
    IF wr.err # "ok" THEN [err |-> "failed to restore file", fs |-> wr.fs]
    ELSE IF backup.SymlinkPath = EmptyStr THEN [err |-> "ok", fs |-> wr.fs]
    ELSE
    With(Remove(wr.fs, original), LAMBDA rm :
    IF rm.err # "ok" /\ ~IsNotExist(rm.err)
    THEN [err |-> "failed to remove existing file", fs |-> rm.fs]
    ELSE
    With(Symlink(rm.fs, backup.SymlinkPath.comps, original), LAMBDA sl :
    IF sl.err # "ok" THEN [err |-> "failed to restore symlink", fs |-> sl.fs]
    ELSE [err |-> "ok", fs |-> sl.fs])))))))

\* Manager.RestoreBackup(backupID), run in working directory wd.
RestoreBackup(f, bk, wd, backupID) ==
    With(bk.dirs[backupID], LAMBDA d :
    With(Unmarshal(d.json), LAMBDA backup :
    With(At(wd, backup.OriginalPath), LAMBDA original :
    CASE ~(bk.exists /\ d.present) \/ d.meta = "missing" ->
           [err |-> "failed to read backup metadata", fs |-> f]
      [] d.meta = "malformed" -> [err |-> "failed to parse backup metadata", fs |-> f]
      [] d.content = 0 -> [err |-> "failed to read backup content", fs |-> f]
      [] OTHER ->
    With(MkdirAll(f, At(wd, DirStr(backup.OriginalPath))), LAMBDA m1 :
    IF m1.err # "ok" THEN [err |-> "failed to create parent directory", fs |-> m1.fs]
    ELSE
    With(WriteFile(m1.fs, original, d.content), LAMBDA wr :
    IF wr.err # "ok" THEN [err |-> "failed to restore file", fs |-> wr.fs]
    ELSE IF backup.SymlinkPath = EmptyStr THEN [err |-> "ok", fs |-> wr.fs]
    ELSE
    With(Remove(wr.fs, original), LAMBDA rm :
    IF rm.err # "ok" /\ ~IsNotExist(rm.err)
    THEN [err |-> "failed to remove existing file", fs |-> rm.fs]
    ELSE
    With(Symlink(rm.fs, backup.SymlinkPath.comps, original), LAMBDA sl :
    IF sl.err # "ok" THEN [err |-> "failed to restore symlink", fs |-> sl.fs]
    ELSE [err |-> "ok", fs |-> sl.fs])))))))

\* ListBackups as it would be if it returned an error for a backup whose
\* metadata it cannot read or parse.
ListBackups_FailsOnBad(bk) ==
    IF ~bk.exists THEN [err |-> "ok", backups |-> <<>>]
    ELSE
    With(SelectSeq([i \in 1..MaxClock |-> i], LAMBDA i : bk.dirs[i].present), LAMBDA entries :
    IF \E j \in 1..Len(entries) : bk.dirs[entries[j]].meta # "json"
    THEN [err |-> "failed to read backup metadata", backups |-> <<>>]
    ELSE [err |-> "ok",
          backups |-> [j \in 1..Len(entries) |-> Unmarshal(bk.dirs[entries[j]].json)]])

\* Manager.ListBackups: os.ReadDir gives the per-backup directories sorted
\* by name, that is by identifier; one whose metadata.json cannot be read
\* or parsed is skipped.
ListBackups(bk) ==
    IF ~bk.exists THEN [err |-> "ok", backups |-> <<>>]
    ELSE
    With(SelectSeq([i \in 1..MaxClock |-> i],
                   LAMBDA i : bk.dirs[i].present /\ bk.dirs[i].meta = "json"),
         LAMBDA good :
    [err |-> "ok", backups |-> [j \in 1..Len(good) |-> Unmarshal(bk.dirs[good[j]].json)]])

---------------------------------------------------------------------------
(* health: the checks over the store and the home directory.               *)

\* A HealthCheckResult.  Message is the fixed text and Items the names it
\* lists; Error is "" for nil.  (Timestamp is left out: nothing reads it.)
Result(status, message, items, error, severity) ==
    [Status |-> status, Message |-> message, Items |-> items,
     Error |-> error, Severity |-> severity]

RelOf(path) == Rel(ConfigsDir, path)

\* The stored paths of a list, each relative to ConfigsDir.
RelAll(paths) == [i \in 1..Len(paths) |-> RelOf(paths[i])]

\* The callback's test of checkBrokenSymlinks for one stored entry.
IsBroken(f, path) == IsNotExist(Lstat(f, Join(HomeDir, RelOf(path))).err)

\* Manager.checkBrokenSymlinks.
checkBrokenSymlinks(f) ==
    With(Walk(f, ConfigsDir), LAMBDA w :
    With(RelAll(SelectSeq(w.visited, LAMBDA path : IsBroken(f, path))), LAMBDA brokenLinks :
    CASE w.err # "ok" ->
           Result("Symlink Check", "Error checking symlinks", <<>>, w.err, "error")
      [] Len(brokenLinks) > 0 ->
           Result("Symlink Check", "Found broken symlinks", brokenLinks,
                  "broken symlinks found", "warning")
      [] OTHER ->
           Result("Symlink Check", "All symlinks are valid", <<>>, "", "info")))

\* The conflict test as it would be without the comparison of the link's
\* target with the stored path.
IsConflict_AnyLink(f, path) ==
    With(Join(HomeDir, RelOf(path)), LAMBDA homePath :
    /\ Lstat(f, homePath).err = "ok"
    /\ Readlink(f, homePath).err # "ok")

\* The conflict test as it would be if it compared the link's target with
\* the path relative to the store, not with the stored path.
IsConflict_RelTarget(f, path) ==
    With(Join(HomeDir, RelOf(path)), LAMBDA homePath :
    /\ Lstat(f, homePath).err = "ok"
    /\ With(Readlink(f, homePath), LAMBDA rl : rl.err # "ok" \/ rl.target # RelOf(path)))

\* The callback's test of checkFileConflicts for one stored entry.
IsConflict(f, path) ==
    With(Join(HomeDir, RelOf(path)), LAMBDA homePath :
    /\ Lstat(f, homePath).err = "ok"
    /\ With(Readlink(f, homePath), LAMBDA rl : rl.err # "ok" \/ rl.target # path))

\* Manager.checkFileConflicts.
checkFileConflicts(f) ==
    With(Walk(f, ConfigsDir), LAMBDA w :
    With(RelAll(SelectSeq(w.visited, LAMBDA path : IsConflict(f, path))), LAMBDA conflicts :
    CASE w.err # "ok" ->
           Result("Conflict Check", "Error checking conflicts", <<>>, w.err, "error")
      [] Len(conflicts) > 0 ->
           Result("Conflict Check", "Found potential conflicts", conflicts,
                  "conflicts found", "warning")
      [] OTHER ->
           Result("Conflict Check", "No conflicts found", <<>>, "", "info")))

---------------------------------------------------------------------------
(* The git bridge: operations that run git and gh as child processes.  An  *)
(* operation's input says which of its commands fail; it returns the error *)
(* and the commands it ran, in order.                                      *)

\* The byte strings InitializeGitRepo writes to .gitignore and README.md.
gitignoreContent == 1
readmeContent == 2

maxRetries == 3

PushUpstream == "git push -u origin main"

\* The commands InitializeGitRepo runs before it pushes, with the error each
\* one's failure is reported as.  The two os.WriteFile calls stand between
\* "git init" and "gh repo create".
SetupCmds ==
    << [cmd |-> "git config user.name", err |-> "git user.name not configured"],
       [cmd |-> "git config user.email", err |-> "git user.email not configured"],
       [cmd |-> "git init", err |-> "error initializing git repository"],
       [cmd |-> "gh repo create", err |-> "error creating GitHub repository"],
       [cmd |-> "git add", err |-> "error adding files"],
       [cmd |-> "git commit", err |-> "error committing files"],
       [cmd |-> "git branch -M main", err |-> "error setting default branch"] >>

\* What the child processes of one InitializeGitRepo do: fail is the first
\* of SetupCmds to fail (0: none), push[i] whether the i-th push succeeds.
GitOutcomes == [fail : 0..Len(SetupCmds), push : [1..maxRetries -> BOOLEAN]]

\* CombinedOutput on a command that re-runs the command it is called on.
CombinedOutput_Reruns(cs, cmd) == Append(cs, cmd)

\* exec.Cmd.CombinedOutput on a Cmd that Run has already started: it
\* returns "exec: already started" and starts no process.
CombinedOutput(cs, cmd) == cs

\* time.Sleep(time.Second * time.Duration(i+1)), by i+1.
Sleep == <<"sleep 1s", "sleep 2s", "sleep 3s">>

\* The push loop from iteration i, cs the commands run so far.  n is the
\* attempt count the error message names.
RECURSIVE PushLoop(_, _, _)
PushLoop(i, o, cs) ==
    IF i >= maxRetries
    THEN [err |-> "failed to push to GitHub after %d attempts", n |-> maxRetries, calls |-> cs]
    ELSE LET ran == Append(cs, PushUpstream)
         IN  IF o.push[i + 1] THEN [err |-> "ok", n |-> 0, calls |-> ran]
             ELSE IF i = maxRetries - 1
             THEN [err |-> "error pushing to GitHub after %d attempts", n |-> maxRetries,
                   calls |-> CombinedOutput(ran, PushUpstream)]
             ELSE PushLoop(i + 1, o, Append(ran, Sleep[i + 1]))

\* The first k of SetupCmds, as the commands run.
Ran(k) == [j \in 1..k |-> SetupCmds[j].cmd]

\* Manager.InitializeGitRepo(repoName).  git is whether DotmanDir/.git
\* exists.  Returns the error, the file system, whether .git exists and
\* the commands run.
InitializeGitRepo(f, git, o) ==
    LET stop(k, ff, g) == [err |-> SetupCmds[k].err, n |-> 0, fs |-> ff, git |-> g,
                           calls |-> Ran(k)]
    IN  IF o.fail \in 1..3 THEN stop(o.fail, f, git)
        ELSE
        With(WriteFile(f, DotmanDir \o <<".gitignore">>, gitignoreContent), LAMBDA wi :
        IF wi.err # "ok"
        THEN [err |-> "error creating .gitignore", n |-> 0, fs |-> wi.fs, git |-> TRUE,
              calls |-> Ran(3)]
        ELSE
        With(WriteFile(wi.fs, DotmanDir \o <<"README.md">>, readmeContent), LAMBDA wr :
        IF wr.err # "ok"
        THEN [err |-> "error creating README.md", n |-> 0, fs |-> wr.fs, git |-> TRUE,
              calls |-> Ran(3)]
        ELSE IF o.fail # 0 THEN stop(o.fail, wr.fs, TRUE)
        ELSE
        With(PushLoop(0, o, Ran(Len(SetupCmds))), LAMBDA r :
        [err |-> r.err, n |-> r.n, fs |-> wr.fs, git |-> TRUE, calls |-> r.calls])))

\* Manager.isGitRepo
isGitRepo(git) == git

\* CommitAndPush as it would be if it ran every step and returned the
\* first error afterwards.
CommitAndPush_RunsAll(git, fail) ==
    LET cmds == <<"git add", "git commit", "git push">>
        errs == <<"error adding files", "error committing changes", "error pushing changes">>
    IN  IF ~isGitRepo(git) THEN [err |-> "not a git repository", calls |-> <<>>]
        ELSE [err |-> IF fail = 0 THEN "ok" ELSE errs[fail], calls |-> cmds]

\* Manager.CommitAndPush(message): fail is the first of its three commands
\* to fail (0: none).
CommitAndPush(git, fail) ==
    LET cmds == <<"git add", "git commit", "git push">>
        errs == <<"error adding files", "error committing changes", "error pushing changes">>
    IN  IF ~isGitRepo(git) THEN [err |-> "not a git repository", calls |-> <<>>]
        ELSE IF fail = 0 THEN [err |-> "ok", calls |-> cmds]
        ELSE [err |-> errs[fail], calls |-> SubSeq(cmds, 1, fail)]

\* Manager.Push()
Push(git, ok) ==
    IF ~isGitRepo(git) THEN [err |-> "not a git repository", calls |-> <<>>]
    ELSE [err |-> IF ok THEN "ok" ELSE "error pushing changes", calls |-> <<"git push">>]

---------------------------------------------------------------------------
(* health: the other checks, and the run of all eight.  What a check reads  *)
(* from outside the modelled state (file modes and times, git, the disk)   *)
(* is an input env of the run.                                              *)

\* The stored files whose mode and modification time vary.
Aged == {ConfigsDir \o <<"a">>}

\* What one run reads of the world outside the modelled state.
\* unreadable: the stored files without owner read permission; old: those
\* not modified for 30 days; status: what "git status --porcelain" does,
\* in checkGitStatus and again in checkFileChanges (the two runs see the
\* same repository and are given the same outcome); remote: whether origin
\* is configured; disk: what Statfs reports.  An env says nothing of what
\* the run does not read: no mode or time of a file that is not stored, no
\* outcome of a command that is not run (without a repository none is; the
\* remote is asked for only when "git status" printed nothing).
HealthEnvs(f, git) ==
    LET stored == Range(Walk(f, ConfigsDir).visited) \cap Aged
        runs == IF git THEN {"fails", "dirty", "clean"} ELSE {"clean"}
    IN  {e \in [unreadable : SUBSET stored, old : SUBSET stored, status : runs,
                remote : BOOLEAN, disk : {"statfs fails", "low", "enough"}] :
           e.status # "clean" \/ ~git => e.remote}

\* Manager.checkFilePermissions
checkFilePermissions(f, unreadable) ==
    With(Walk(f, ConfigsDir), LAMBDA w :
    With(RelAll(SelectSeq(w.visited, LAMBDA path : path \in unreadable)), LAMBDA invalidPerms :
    CASE w.err # "ok" ->
           Result("Permission Check", "Error checking permissions", <<>>, w.err, "error")
      [] Len(invalidPerms) > 0 ->
           Result("Permission Check", "Found files with invalid permissions",
                  invalidPerms, "invalid permissions found", "warning")
      [] OTHER ->
           Result("Permission Check", "All files have correct permissions", <<>>, "", "info")))

\* Manager.checkGitStatus
checkGitStatus(git, status, remote) ==
    CASE ~isGitRepo(git) ->
           Result("Git Status", "Not a git repository", <<>>, "not a git repository", "error")
      [] status = "fails" ->
           Result("Git Status", "Error checking git status", <<>>, "exit status", "error")
      [] status = "dirty" ->
           Result("Git Status", "Found uncommitted changes", <<>>,
                  "uncommitted changes found", "warning")
      [] ~remote ->
           Result("Git Status", "No remote repository configured", <<>>,
                  "no remote repository", "error")
      [] OTHER ->
           Result("Git Status", "Repository is clean and properly configured", <<>>, "", "info")

\* Manager.checkBackupIntegrity
checkBackupIntegrity(bk) ==
    With(SelectSeq([i \in 1..MaxClock |-> i], LAMBDA i : bk.dirs[i].present), LAMBDA entries :
    With(SelectSeq(entries, LAMBDA i : bk.dirs[i].meta = "missing" \/ bk.dirs[i].content = 0),
         LAMBDA invalidBackups :
    CASE ~bk.exists ->
           Result("Backup Check", "No backups directory found", <<>>,
                  "no backups directory", "error")
      [] Len(invalidBackups) > 0 ->
           Result("Backup Check", "Found invalid backups", invalidBackups,
                  "invalid backups found", "warning")
      [] OTHER ->
           Result("Backup Check", "All backups are valid", <<>>, "", "info")))

\* Manager.checkOutdatedConfigs
checkOutdatedConfigs(f, old) ==
    With(Walk(f, ConfigsDir), LAMBDA w :
    With(RelAll(SelectSeq(w.visited, LAMBDA path : path \in old)), LAMBDA outdated :
    CASE w.err # "ok" ->
           Result("Outdated Check", "Error checking outdated files", <<>>, w.err, "error")
      [] Len(outdated) > 0 ->
           Result("Outdated Check", "Found potentially outdated files", outdated,
                  "", "warning")
      [] OTHER ->
           Result("Outdated Check", "No outdated files found", <<>>, "", "info")))

\* Manager.checkDiskSpace
checkDiskSpace(disk) ==
    CASE disk = "statfs fails" ->
           Result("Disk Space", "Error checking disk space", <<>>, "statfs", "error")
      [] disk = "low" ->
           Result("Disk Space", "Low disk space", <<>>, "", "warning")
      [] OTHER ->
           Result("Disk Space", "Sufficient disk space", <<>>, "", "info")

\* Manager.checkFileChanges
checkFileChanges(git, changes) ==
    CASE ~isGitRepo(git) ->
           Result("File Changes", "Not a git repository", <<>>, "", "info")
      [] changes = "fails" ->
           Result("File Changes", "Error checking file changes", <<>>, "exit status", "error")
      [] changes = "dirty" ->
           Result("File Changes", "Found uncommitted changes", <<>>, "", "warning")
      [] OTHER ->
           Result("File Changes", "No uncommitted changes", <<>>, "", "info")

\* saveHealthCheckResults as it would be if it wrote the snapshot among
\* the tracked files.
saveHealthCheckResults_IntoStore(f, now, rs) ==
    With(MkdirAll(f, ConfigsDir), LAMBDA mk :
    IF mk.err # "ok" THEN mk
    ELSE WriteFile(mk.fs, ConfigsDir \o <<"a">>, Len(rs)))

\* Manager.saveHealthCheckResults.  Of the bytes json.MarshalIndent makes
\* the model keeps the number of results they hold.
saveHealthCheckResults(f, now, rs) ==
    With(MkdirAll(f, HealthDir), LAMBDA mk :
    IF mk.err # "ok" THEN mk
    ELSE WriteFile(mk.fs, HealthFile(now), Len(rs)))

\* The test of HealthCheck's print loop, as it would be if it read the
\* severity of a result.
HasErrors_BySeverity(rs) == \E i \in 1..Len(rs) : rs[i].Severity = "error"

\* hasErrors at the end of HealthCheck's print loop.
HasErrors(rs) == \E i \in 1..Len(rs) : rs[i].Error # ""

\* The line HealthCheck prints for a result.
PrintLine(r) ==
    [icon |-> IF r.Error # "" THEN "cross"
              ELSE IF r.Severity = "warning" THEN "warning" ELSE "check",
     status |-> r.Status, message |-> r.Message]

\* HealthCheck as it would be if it stopped at the first check whose
\* result has an Error.
HealthCheck_StopsAtFailure(f, git, bk, now, env) ==
    With(<< checkBrokenSymlinks(f),
            checkFilePermissions(f, env.unreadable),
            checkGitStatus(git, env.status, env.remote),
            checkBackupIntegrity(bk),
            checkFileConflicts(f),
            checkOutdatedConfigs(f, env.old),
            checkDiskSpace(env.disk),
            checkFileChanges(git, env.status) >>,
         LAMBDA all :
    With(IF \E i \in 1..Len(all) : all[i].Error # ""
         THEN SubSeq(all, 1, CHOOSE i \in 1..Len(all) :
                                /\ all[i].Error # ""
                                /\ \A j \in 1..(i - 1) : all[j].Error = "")
         ELSE all,
         LAMBDA rs :
    With(saveHealthCheckResults(f, now, rs), LAMBDA saved :
    [err |-> IF HasErrors(rs) THEN "health check found issues" ELSE "ok",
     results |-> rs,
     out |-> (IF saved.err # "ok"
              THEN << [icon |-> "none", status |-> "Warning",
                       message |-> "Failed to save health check results"] >>
              ELSE <<>>) \o [i \in 1..Len(rs) |-> PrintLine(rs[i])],
     fs |-> saved.fs])))

\* Manager.HealthCheck, run at time now.  Returns the error, the results,
\* the lines printed and the file system.
HealthCheck(f, git, bk, now, env) ==
    With(<< checkBrokenSymlinks(f),
            checkFilePermissions(f, env.unreadable),
            checkGitStatus(git, env.status, env.remote),
            checkBackupIntegrity(bk),
            checkFileConflicts(f),
            checkOutdatedConfigs(f, env.old),
            checkDiskSpace(env.disk),
            checkFileChanges(git, env.status) >>,
         LAMBDA rs :
    With(saveHealthCheckResults(f, now, rs), LAMBDA saved :
    [err |-> IF HasErrors(rs) THEN "health check found issues" ELSE "ok",
     results |-> rs,
     out |-> (IF saved.err # "ok"
              THEN << [icon |-> "none", status |-> "Warning",
                       message |-> "Failed to save health check results"] >>
              ELSE <<>>) \o [i \in 1..Len(rs) |-> PrintLine(rs[i])],
     fs |-> saved.fs]))

---------------------------------------------------------------------------
(* State, and the operations as actions.                                    *)

\* The record of the last operation: err is "ok" or the error returned,
\* data the bytes the operation read from its argument when it was called,
\* before what the operation found in place when it was called.
NoOp == [op |-> "none", arg |-> <<>>, err |-> "ok", data |-> 0, before |-> {}, id |-> 0]

\* id is the backup identifier the operation made or was given.
DoneId(op, arg, err, data, before, id) ==
    [op |-> op, arg |-> arg, err |-> err, data |-> data, before |-> before, id |-> id]

Done(op, arg, err, data, before) == DoneId(op, arg, err, data, before, 0)

\* A Link run: pc is the step it is at ("idle" when it is not running,
\* "done" when it has returned err), todo the stored entries its walk has
\* still to visit, the first being the one it is at, alone what Link
\* returns when it runs on its own from the state the run started in.
Runners == 1..2

NoRuns == [i \in Runners |-> [pc |-> "idle", todo |-> <<>>, err |-> "ok", alone |-> "ok"]]

EmptyFs == [p \in Paths |-> IF p \in FixedDirs THEN DirNode ELSE NoNode]

\* config.New has run: HomeDir, DotmanDir and ConfigsDir exist; nothing is
\* tracked, there is no repository and no backups directory.
Init ==
    /\ fs = EmptyFs
    /\ cwd = HomeDir
    /\ gitDir = FALSE
    /\ backups = NoBackups
    /\ clock = 1
    /\ last = NoOp
    /\ out = <<>>
    /\ results = <<>>
    /\ calls = <<>>
    /\ linkRuns = NoRuns

\* dotman add <absPath>, for the files of S.
AddFileOn(S) ==
    \E p \in S :
      \E r \in {AddFile(fs, p, "committed")} :
          \E g \in (IF r.err = "ok" THEN GitAddOutcomes ELSE {"committed"}) :
            /\ fs' = r.fs
            /\ last' = Done("AddFile", p, IF r.err = "ok" THEN AddFileGit(g).err ELSE r.err,
                            ReadFile(fs, p).data,
                            IF Readlink(fs, p).target = Join(ConfigsDir, Rel(HomeDir, p))
                            THEN {"linked"} ELSE {})
            /\ calls' = IF r.err = "ok" THEN AddFileGit(g).calls ELSE <<>>
            /\ out' = <<>>
            /\ results' = <<>>
            /\ UNCHANGED <<cwd, gitDir, backups, clock, linkRuns>>

DoAddFile == AddFileOn(HomePaths)

\* dotman link
DoLink ==
    \E r \in {Link(fs)} :
        /\ fs' = r.fs
        /\ last' = Done("Link", <<>>, r.err, 0, {Occupant(fs, p) : p \in Tracked(fs)})
        /\ calls' = <<>>
        /\ out' = <<>>
        /\ results' = <<>>
        /\ UNCHANGED <<cwd, gitDir, backups, clock, linkRuns>>

\* dotman list
DoListFiles ==
    \E r \in {ListFiles(fs)} :
        /\ last' = Done("ListFiles", <<>>, r.err, 0, {})
        /\ out' = r.files
        /\ calls' = <<>>
        /\ results' = <<>>
        /\ UNCHANGED <<fs, cwd, gitDir, backups, clock, linkRuns>>

\* One check of the health scanner, run on its own.
DoCheckBrokenSymlinks ==
    /\ results' = <<checkBrokenSymlinks(fs)>>
    /\ last' = Done("checkBrokenSymlinks", <<>>, "ok", 0, {})
    /\ calls' = <<>>
    /\ out' = <<>>
    /\ UNCHANGED <<fs, cwd, gitDir, backups, clock, linkRuns>>

DoCheckFileConflicts ==
    /\ results' = <<checkFileConflicts(fs)>>
    /\ last' = Done("checkFileConflicts", <<>>, "ok", 0,
                    {Occupant(fs, p) : p \in Tracked(fs)})
    /\ calls' = <<>>
    /\ out' = <<>>
    /\ UNCHANGED <<fs, cwd, gitDir, backups, clock, linkRuns>>

---------------------------------------------------------------------------
(* The user, editing files between runs of the tool.                        *)

\* The user edits entries of real directories only.
Editable(p) == fs[Dir(p)].kind = "dir" /\ ~HasChildren(fs, p)

\* Where the user may point a symbolic link at p: the stored path that
\* mirrors p (the stored file, or for a directory name the stored
\* directory), and a file elsewhere.
LinkTargets(p) == {Join(ConfigsDir, Rel(HomeDir, p)), OutsideFile}

Forget ==
    /\ last' = NoOp
    /\ out' = <<>>
    /\ results' = <<>>
    /\ calls' = <<>>
    /\ UNCHANGED <<cwd, gitDir, backups, clock, linkRuns>>

WriteFileOn(S) ==
    \E p \in S, c \in Contents :
      /\ Editable(p)
      /\ fs[p] # FileNode(c)
      /\ fs' = [fs EXCEPT ![p] = FileNode(c)]
      /\ Forget

\* The user makes a file where there is none.
CreateFileOn(S) ==
    \E p \in S :
      /\ Editable(p)
      /\ fs[p].kind = "none"
      /\ fs' = [fs EXCEPT ![p] = FileNode(MaxContent)]
      /\ Forget

RemoveOn(S) ==
    \E p \in S :
      /\ Editable(p)
      /\ fs[p].kind # "none"
      /\ fs' = [fs EXCEPT ![p] = NoNode]
      /\ Forget

UserWriteFile == WriteFileOn(HomePaths)

UserMkdir ==
    \E p \in HomePaths :
      /\ Editable(p)
      /\ fs[p].kind # "dir"
      /\ fs' = [fs EXCEPT ![p] = DirNode]
      /\ Forget

UserSymlink ==
    \E p \in HomePaths : \E t \in LinkTargets(p) :
      /\ Editable(p)
      /\ fs[p] # LinkNode(t)
      /\ fs' = [fs EXCEPT ![p] = LinkNode(t)]
      /\ Forget

UserRemove == RemoveOn(HomePaths)

Next ==
    \/ DoAddFile
    \/ DoLink
    \/ DoListFiles
    \/ DoCheckBrokenSymlinks
    \/ DoCheckFileConflicts
    \/ UserWriteFile
    \/ UserMkdir
    \/ UserSymlink
    \/ UserRemove

\* The store and the home directory under the tool and the user.
Spec == Init /\ [][Next]_vars

---------------------------------------------------------------------------
(* Files outside the home root.                                             *)

OutsideInputs == {OutsideFile, HomeDir \o <<"a">>}

DoAddOutside == AddFileOn(OutsideInputs)

UserWriteOutside == WriteFileOn(OutsideInputs)

UserRemoveOutside == RemoveOn(OutsideInputs)

NextOutside ==
    \/ DoAddOutside
    \/ DoLink
    \/ DoListFiles
    \/ UserWriteOutside
    \/ UserRemoveOutside

\* dotman add on a file outside the home root (and one inside it).
SpecOutside == Init /\ [][NextOutside]_vars

---------------------------------------------------------------------------
(* Backups.                                                                 *)

\* The file that is backed up and restored, its stored copy, and a file
\* elsewhere.
BackupPaths == {HomeDir \o <<"a">>, ConfigsDir \o <<"a">>, OutsideFile}

\* The arguments "dotman backup" is given: absolute, or relative to the
\* working directory.
BackupInputs == {AbsStr(HomeDir \o <<"a">>), RelStr(<<"a">>)}

\* What filePath names when BackupFile is called.
KindAt(f, p) == IF Lstat(f, p).err = "ok" THEN Lstat(f, p).kind ELSE "nothing"

\* dotman backup <filePath>
DoBackupFile ==
    \E filePath \in BackupInputs :
      \E r \in {BackupFile(fs, backups, cwd, clock, filePath)} :
          /\ backups' = r.backups
          /\ last' = DoneId("BackupFile", filePath, r.err,
                            ReadFile(fs, At(cwd, filePath)).data,
                            {KindAt(fs, At(cwd, filePath))}, r.id)
          /\ out' = <<>>
          /\ results' = <<>>
          /\ calls' = <<>>
          /\ UNCHANGED <<fs, cwd, gitDir, clock, linkRuns>>

\* dotman restore <backupID>.  The record says whether the restore follows
\* at once the BackupFile that made backupID, and what that backup was of.
DoRestoreBackup ==
    \E backupID \in Ids :
      \E r \in {RestoreBackup(fs, backups, cwd, backupID)} :
      LET fresh == last.op = "BackupFile" /\ last.err = "ok" /\ last.id = backupID
      IN  /\ fs' = r.fs
          /\ last' = DoneId("RestoreBackup", Unmarshal(backups.dirs[backupID].json).OriginalPath,
                            r.err, 0,
                            IF fresh THEN {"just backed up"} \cup last.before ELSE {},
                            backupID)
          /\ out' = <<>>
          /\ results' = <<>>
          /\ calls' = <<>>
          /\ UNCHANGED <<cwd, gitDir, backups, clock, linkRuns>>

\* A second passes.
Tick ==
    /\ clock < MaxClock
    /\ clock' = clock + 1
    /\ UNCHANGED <<fs, cwd, gitDir, backups, last, out, results, calls, linkRuns>>

\* The next run of the tool is started in another directory.
UserChdir ==
    /\ cwd' \in {HomeDir, OutsideDir} \ {cwd}
    /\ last' = NoOp
    /\ out' = <<>>
    /\ results' = <<>>
    /\ calls' = <<>>
    /\ UNCHANGED <<fs, gitDir, backups, clock, linkRuns>>

UserWriteBackedUp == WriteFileOn(BackupPaths)

UserRemoveBackedUp == RemoveOn(BackupPaths)

UserSymlinkBackedUp ==
    \E t \in LinkTargets(HomeDir \o <<"a">>) :
      /\ fs[HomeDir \o <<"a">>].kind # "dir"
      /\ fs[HomeDir \o <<"a">>] # LinkNode(t)
      /\ fs' = [fs EXCEPT ![HomeDir \o <<"a">>] = LinkNode(t)]
      /\ Forget

NextBackup ==
    \/ DoBackupFile
    \/ DoRestoreBackup
    \/ Tick
    \/ UserChdir
    \/ UserWriteBackedUp
    \/ UserRemoveBackedUp
    \/ UserSymlinkBackedUp

\* Backing up and restoring one file, by absolute and by relative name.
SpecBackup == Init /\ [][NextBackup]_vars

---------------------------------------------------------------------------
(* The git operations.                                                      *)

\* dotman init <repoName> for a new repository
DoInitializeGitRepo ==
    \E o \in GitOutcomes :
      \E r \in {InitializeGitRepo(fs, gitDir, o)} :
          /\ fs' = r.fs
          /\ gitDir' = r.git
          /\ calls' = r.calls
          /\ last' = Done("InitializeGitRepo", o, r.err, r.n, {})
          /\ out' = <<>>
          /\ results' = <<>>
          /\ UNCHANGED <<cwd, backups, clock, linkRuns>>

\* dotman commit <message>
DoCommitAndPush ==
    \E fail \in 0..3 :
      \E r \in {CommitAndPush(gitDir, fail)} :
          /\ calls' = r.calls
          /\ last' = Done("CommitAndPush", fail, r.err, 0, {})
          /\ out' = <<>>
          /\ results' = <<>>
          /\ UNCHANGED <<fs, cwd, gitDir, backups, clock, linkRuns>>

\* A run of Manager.Push.
DoPush ==
    \E ok \in BOOLEAN :
      \E r \in {Push(gitDir, ok)} :
          /\ calls' = r.calls
          /\ last' = Done("Push", ok, r.err, 0, {})
          /\ out' = <<>>
          /\ results' = <<>>
          /\ UNCHANGED <<fs, cwd, gitDir, backups, clock, linkRuns>>

UserWriteGitFile == WriteFileOn(GitFiles)

UserRemoveGitFile == RemoveOn(GitFiles)

\* The user makes a directory where InitializeGitRepo writes a file.
UserMkdirGitFile ==
    \E p \in GitFiles :
      /\ fs[p].kind = "none"
      /\ fs' = [fs EXCEPT ![p] = DirNode]
      /\ Forget

\* The user deletes DotmanDir/.git.
UserRemoveGitDir ==
    /\ gitDir
    /\ gitDir' = FALSE
    /\ last' = NoOp
    /\ out' = <<>>
    /\ results' = <<>>
    /\ calls' = <<>>
    /\ UNCHANGED <<fs, cwd, backups, clock, linkRuns>>

NextGit ==
    \/ DoInitializeGitRepo
    \/ DoCommitAndPush
    \/ DoPush
    \/ UserWriteGitFile
    \/ UserRemoveGitFile
    \/ UserMkdirGitFile
    \/ UserRemoveGitDir

\* The git operations, with the user editing the files they write.
SpecGit == Init /\ [][NextGit]_vars

---------------------------------------------------------------------------
(* The health run.                                                          *)

TrackedHome == {HomeDir \o <<"a">>}

\* A run of Manager.HealthCheck.
DoHealthCheck ==
    \E env \in HealthEnvs(fs, gitDir) :
      \E r \in {HealthCheck(fs, gitDir, backups, clock, env)} :
          /\ fs' = r.fs
          /\ results' = r.results
          /\ out' = r.out
          /\ last' = Done("HealthCheck", env, r.err, 0, {})
          /\ calls' = <<>>
          /\ UNCHANGED <<cwd, gitDir, backups, clock, linkRuns>>

DoAddTracked == AddFileOn(TrackedHome)

UserCreateTracked == CreateFileOn(TrackedHome)

UserRemoveTracked == RemoveOn(TrackedHome)

\* dotman backup <absolute path of the tracked file>
DoBackupTracked ==
    \E p \in TrackedHome :
      \E r \in {BackupFile(fs, backups, cwd, clock, AbsStr(p))} :
          /\ backups' = r.backups
          /\ last' = DoneId("BackupFile", AbsStr(p), r.err, ReadFile(fs, p).data,
                            {KindAt(fs, p)}, r.id)
          /\ out' = <<>>
          /\ results' = <<>>
          /\ calls' = <<>>
          /\ UNCHANGED <<fs, cwd, gitDir, clock, linkRuns>>

\* The user deletes the content file of a backup.
UserRemoveBackupContent ==
    \E i \in Ids :
      /\ backups.dirs[i].present
      /\ backups.dirs[i].content # 0
      /\ backups' = [backups EXCEPT !.dirs[i].content = 0]
      /\ last' = NoOp
      /\ out' = <<>>
      /\ results' = <<>>
      /\ calls' = <<>>
      /\ UNCHANGED <<fs, cwd, gitDir, clock, linkRuns>>

\* The user runs "git init" in DotmanDir.
UserGitInit ==
    /\ ~gitDir
    /\ gitDir' = TRUE
    /\ last' = NoOp
    /\ out' = <<>>
    /\ results' = <<>>
    /\ calls' = <<>>
    /\ UNCHANGED <<fs, cwd, backups, clock, linkRuns>>

NextHealth ==
    \/ DoHealthCheck
    \/ DoAddTracked
    \/ UserCreateTracked
    \/ UserRemoveTracked
    \/ DoBackupTracked
    \/ UserRemoveBackupContent
    \/ UserGitInit
    \/ UserRemoveGitDir

\* The health run over one tracked file, the repository and the backups.
SpecHealth == Init /\ [][NextHealth]_vars

---------------------------------------------------------------------------
(* Initialization from an existing repository.                              *)

\* Config.EnsureDirectories: MkdirAll of DotmanDir, then of ConfigsDir.
EnsureDirectories(f) ==
    With(MkdirAll(f, DotmanDir), LAMBDA m1 :
    IF m1.err # "ok" THEN m1 ELSE MkdirAll(m1.fs, ConfigsDir))

\* The remote repositories a clone is made of, each as the relative paths
\* of the files it holds under configs (with content 1).
Repos == {{}, {<<"a">>}, {<<"a">>, <<"d", "a">>}}

\* The working tree "git clone <url> DotmanDir" makes in an empty DotmanDir:
\* the files of the repository and the directories they lie in.
Clone(f, repo) ==
    [p \in Paths |->
       CASE \E r \in repo : p = ConfigsDir \o r -> FileNode(1)
         [] \E r \in repo : IsPrefix(p, ConfigsDir \o r) /\ IsPrefix(ConfigsDir, p) -> DirNode
         [] OTHER -> f[p]]

\* The commands InitializeFromExistingRepo runs, with the error each one's
\* failure is reported as ("git commit" when it exits with a status other
\* than 1).  After them comes "git push", whose failure is only printed.
ExistingCmds ==
    << [cmd |-> "git config user.name", err |-> "git user.name not configured"],
       [cmd |-> "git config user.email", err |-> "git user.email not configured"],
       [cmd |-> "git clone", err |-> "error cloning repository"],
       [cmd |-> "git config user.name <name>", err |-> "error Setting user name"],
       [cmd |-> "git config user.email <email>", err |-> "error Setting user email"],
       [cmd |-> "git add configs .gitignore", err |-> "error adding configs directory"],
       [cmd |-> "git commit", err |-> "error committing configs directory"] >>

\* What the child processes of one InitializeFromExistingRepo do: fail is
\* the first of ExistingCmds to fail (0: none), commit whether "git commit"
\* made a commit or exited with status 1 (nothing to commit), push whether
\* the push succeeds, repo what the clone brings.
ExistingOutcomes ==
    {o \in [fail : 0..Len(ExistingCmds), commit : {"ok", "nothing to commit"},
            push : BOOLEAN, repo : Repos] :
       o.fail # 0 => o.commit = "ok" /\ o.push}

\* The first k of ExistingCmds, as the commands run.
RanExisting(k) == [j \in 1..k |-> ExistingCmds[j].cmd]

\* os.ReadDir(DotmanDir) has entries: those of the file system, .git and
\* the backups directory.
DotmanDirEntries(f, git, bk) ==
    ReadDirNames(f, DotmanDir) # <<>> \/ git \/ bk.exists

\* InitializeFromExistingRepo as it would be if it asked for the author
\* identity only after the clone, when it sets it in the new repository.
InitializeFromExistingRepo_CloneFirst(f, git, bk, o) ==
    LET stop(k, ff, g) == [err |-> ExistingCmds[k].err, fs |-> ff, git |-> g,
                           calls |-> <<"git clone">> \o RanExisting(k)]
        fail(e, ff, g, cs) == [err |-> e, fs |-> ff, git |-> g, calls |-> cs]
    IN  IF Stat(f, DotmanDir).kind # "dir"
        THEN fail("error reading dotman directory", f, git, <<>>)
        ELSE IF DotmanDirEntries(f, git, bk)
        THEN fail("dotman directory is not empty", f, git, <<>>)
        ELSE IF o.fail = 3 THEN fail(ExistingCmds[3].err, f, git, <<"git clone">>)
        ELSE
        With(MkdirAll(Clone(f, o.repo), ConfigsDir), LAMBDA mk :
        IF mk.err # "ok"
        THEN fail("error creating configs directory", mk.fs, TRUE, <<"git clone">>)
        ELSE
        With(WriteFile(mk.fs, DotmanDir \o <<".gitignore">>, gitignoreContent), LAMBDA wi :
        IF wi.err # "ok" THEN fail("error updating .gitignore", wi.fs, TRUE, <<"git clone">>)
        ELSE IF o.fail # 0 THEN stop(o.fail, wi.fs, TRUE)
        ELSE [err |-> "ok", fs |-> wi.fs, git |-> TRUE,
              calls |-> Append(RanExisting(Len(ExistingCmds)), "git push")]))

\* Manager.InitializeFromExistingRepo(repoURL).  Returns the error, the
\* file system, whether .git exists and the commands run.
InitializeFromExistingRepo(f, git, bk, o) ==
    LET stop(k, ff, g) == [err |-> ExistingCmds[k].err, fs |-> ff, git |-> g,
                           calls |-> RanExisting(k)]
        fail(e, k, ff, g) == [err |-> e, fs |-> ff, git |-> g, calls |-> RanExisting(k)]
    IN  IF o.fail \in 1..2 THEN stop(o.fail, f, git)
        ELSE IF Stat(f, DotmanDir).kind # "dir"
        THEN fail("error reading dotman directory", 2, f, git)
        ELSE IF DotmanDirEntries(f, git, bk)
        THEN fail("dotman directory is not empty", 2, f, git)
        ELSE IF o.fail = 3 THEN stop(3, f, git)
        ELSE
        With(MkdirAll(Clone(f, o.repo), ConfigsDir), LAMBDA mk :
        IF mk.err # "ok" THEN fail("error creating configs directory", 3, mk.fs, TRUE)
        ELSE
        With(WriteFile(mk.fs, DotmanDir \o <<".gitignore">>, gitignoreContent), LAMBDA wi :
        IF wi.err # "ok" THEN fail("error updating .gitignore", 3, wi.fs, TRUE)
        ELSE IF o.fail # 0 THEN stop(o.fail, wi.fs, TRUE)
        ELSE [err |-> "ok", fs |-> wi.fs, git |-> TRUE,
              calls |-> Append(RanExisting(Len(ExistingCmds)), "git push")]))

\* Manager.InitializeFromExistingRepo called on a Manager whose Config was
\* made without its directories (config.NewWithoutDirectories).
DoInitializeFromExistingRepo ==
    \E o \in ExistingOutcomes :
      \E r \in {InitializeFromExistingRepo(fs, gitDir, backups, o)} :
          /\ fs' = r.fs
          /\ gitDir' = r.git
          /\ calls' = r.calls
          /\ last' = Done("InitializeFromExistingRepo", o, r.err, 0, {})
          /\ out' = <<>>
          /\ results' = <<>>
          /\ UNCHANGED <<cwd, backups, clock, linkRuns>>

\* dotman init, answered "y": config.New and EnsureDirectories make the
\* directories, then InitializeFromExistingRepo runs.
DoInitExisting ==
    \E o \in ExistingOutcomes :
      \E e \in {EnsureDirectories(fs)} :
        \E r \in {IF e.err # "ok"
                  THEN [err |-> "Error creating config", fs |-> e.fs, git |-> gitDir,
                        calls |-> <<>>]
                  ELSE InitializeFromExistingRepo(e.fs, gitDir, backups, o)} :
          /\ fs' = r.fs
          /\ gitDir' = r.git
          /\ calls' = r.calls
          /\ last' = Done("init existing", o, r.err, 0, {})
          /\ out' = <<>>
          /\ results' = <<>>
          /\ UNCHANGED <<cwd, backups, clock, linkRuns>>

\* The user empties DotmanDir ("Please remove existing files"): everything
\* in it goes, .git and the backups included.
UserEmptyDotmanDir ==
    /\ DotmanDirEntries(fs, gitDir, backups)
    /\ fs' = [p \in Paths |-> IF p # DotmanDir /\ IsPrefix(DotmanDir, p) THEN NoNode ELSE fs[p]]
    /\ gitDir' = FALSE
    /\ backups' = NoBackups
    /\ last' = NoOp
    /\ out' = <<>>
    /\ results' = <<>>
    /\ calls' = <<>>
    /\ UNCHANGED <<cwd, clock, linkRuns>>

NextInit ==
    \/ DoInitExisting
    \/ DoInitializeFromExistingRepo
    \/ DoInitializeGitRepo
    \/ UserEmptyDotmanDir
    \/ UserRemoveGitDir

\* Initialization, of a new repository and from an existing one.
SpecInit == Init /\ [][NextInit]_vars

---------------------------------------------------------------------------
(* Update.                                                                  *)

\* What "git pull" does in one Update: whether it succeeds, and the files
\* under configs that lie in the working tree of the commit it brings.
PullOutcomes == {o \in [ok : BOOLEAN, repo : Repos] : ~o.ok => o.repo = {}}

\* Update as it would be if it linked before it pulled.
Update_LinksFirst(f, git, pull) ==
    IF ~isGitRepo(git) THEN [err |-> "not a git repository", fs |-> f, calls |-> <<>>]
    ELSE
    With(Link(f), LAMBDA ln :
    IF ~pull.ok THEN [err |-> "error pulling changes", fs |-> ln.fs, calls |-> <<"git pull">>]
    ELSE [err |-> ln.err, fs |-> Clone(ln.fs, pull.repo), calls |-> <<"git pull">>])

\* Manager.Update.
Update(f, git, pull) ==
    IF ~isGitRepo(git) THEN [err |-> "not a git repository", fs |-> f, calls |-> <<>>]
    ELSE IF ~pull.ok THEN [err |-> "error pulling changes", fs |-> f, calls |-> <<"git pull">>]
    ELSE
    With(Link(Clone(f, pull.repo)), LAMBDA ln :
    [err |-> ln.err, fs |-> ln.fs, calls |-> <<"git pull">>])

\* dotman update.  The record says what occupied the mirrored paths of the
\* files tracked after the pull.
DoUpdate ==
    \E pull \in PullOutcomes :
      \E r \in {Update(fs, gitDir, pull)} :
          /\ fs' = r.fs
          /\ calls' = r.calls
          /\ last' = Done("Update", pull, r.err, 0,
                          {Occupant(fs, p) : p \in Tracked(Clone(fs, pull.repo))})
          /\ out' = <<>>
          /\ results' = <<>>
          /\ UNCHANGED <<cwd, gitDir, backups, clock, linkRuns>>

NextUpdate ==
    \/ DoUpdate
    \/ UserGitInit
    \/ UserRemoveGitDir
    \/ UserWriteFile
    \/ UserMkdir
    \/ UserSymlink
    \/ UserRemove

\* Update, with the user editing the home directory between runs.
SpecUpdate == Init /\ [][NextUpdate]_vars

---------------------------------------------------------------------------
(* The backups directory.                                                   *)

\* dotman restore with no argument: the list of backups
DoListBackups ==
    \E r \in {ListBackups(backups)} :
        /\ out' = r.backups
        /\ last' = Done("ListBackups", <<>>, r.err, 0, {})
        /\ results' = <<>>
        /\ calls' = <<>>
        /\ UNCHANGED <<fs, cwd, gitDir, backups, clock, linkRuns>>

UserWriteTracked == WriteFileOn(TrackedHome)

\* The user deletes, or spoils, the metadata.json of a backup.
UserDamageBackupMetadata ==
    \E i \in Ids, m \in {"missing", "malformed"} :
      /\ backups.dirs[i].present
      /\ backups.dirs[i].meta = "json"
      /\ backups' = [backups EXCEPT !.dirs[i].meta = m, !.dirs[i].json = NoJSON]
      /\ last' = NoOp
      /\ out' = <<>>
      /\ results' = <<>>
      /\ calls' = <<>>
      /\ UNCHANGED <<fs, cwd, gitDir, clock, linkRuns>>

NextStore ==
    \/ DoBackupTracked
    \/ DoRestoreBackup
    \/ DoListBackups
    \/ DoAddTracked
    \/ DoLink
    \/ Tick
    \/ UserWriteTracked
    \/ UserRemoveTracked
    \/ UserRemoveBackupContent
    \/ UserDamageBackupMetadata

\* The backups of one file: made, listed, restored, and damaged by the user.
SpecStore == Init /\ [][NextStore]_vars

NextRecords ==
    \/ DoBackupTracked
    \/ DoRestoreBackup
    \/ DoAddTracked
    \/ DoLink
    \/ DoHealthCheck
    \/ Tick
    \/ UserWriteTracked

\* The backups of one file under every operation that runs beside them.
SpecRecords == Init /\ [][NextRecords]_vars

\* The files of the home directory that a walk of three files mirrors.
WalkHome == HomePaths \cup {LateHome}

DoAddWalk == AddFileOn(WalkHome)

UserCreateWalk == CreateFileOn(WalkHome)

UserRemoveWalk == RemoveOn(WalkHome)

NextWalk ==
    \/ DoLink
    \/ DoAddWalk
    \/ UserCreateWalk
    \/ UserRemoveWalk
    \/ UserMkdir
    \/ UserSymlink

\* Link over a store of up to three files, with the user changing what
\* stands at their mirrored paths.
SpecWalk == Init /\ [][NextWalk]_vars

\* The step of a Link run as it would be if a run whose os.Symlink failed
\* removed what stands at the mirrored path before it returned.
LinkStep_RollsBack(r, f) ==
    LET returns(e, ff) == [run |-> [r EXCEPT !.pc = "done", !.err = e], fs |-> ff]
        goes(pc, ff) == [run |-> [r EXCEPT !.pc = pc], fs |-> ff]
        path == Head(r.todo)
        targetPath == Join(HomeDir, Rel(ConfigsDir, path))
    IN  CASE r.pc = "visit" /\ r.todo = <<>> -> returns("ok", f)
          [] r.pc = "visit" /\ r.todo # <<>> ->
               With(Lstat(f, path), LAMBDA st :
               CASE st.err # "ok" -> returns(st.err, f)
                 [] st.kind = "dir" ->
                      With(ReadDirNames(f, path), LAMBDA names :
                      [run |-> [r EXCEPT !.todo = [i \in 1..Len(names) |-> Append(path, names[i])]
                                                    \o Tail(r.todo)],
                       fs |-> f])
                 [] OTHER ->
                      With(MkdirAll(f, Dir(targetPath)), LAMBDA m1 :
                      IF m1.err # "ok" THEN returns(m1.err, m1.fs)
                      ELSE goes("remove", m1.fs)))
          [] r.pc = "remove" ->
               With(RemoveAll(f, targetPath), LAMBDA rm :
               IF rm.err # "ok" THEN returns(rm.err, rm.fs) ELSE goes("symlink", rm.fs))
          [] r.pc = "symlink" ->
               With(Symlink(f, path, targetPath), LAMBDA sl :
               IF sl.err # "ok" THEN returns(sl.err, RemoveAll(sl.fs, targetPath).fs)
               ELSE [run |-> [r EXCEPT !.pc = "visit", !.todo = Tail(r.todo)], fs |-> sl.fs])

\* One step of a Link run r on file system f: the visit of the next entry
\* of the walk (Lstat; for a directory its names are read, for a file the
\* parent of the mirrored path is made), os.RemoveAll, or os.Symlink.
LinkStep(r, f) ==
    LET returns(e, ff) == [run |-> [r EXCEPT !.pc = "done", !.err = e], fs |-> ff]
        goes(pc, ff) == [run |-> [r EXCEPT !.pc = pc], fs |-> ff]
        path == Head(r.todo)
        targetPath == Join(HomeDir, Rel(ConfigsDir, path))
    IN  CASE r.pc = "visit" /\ r.todo = <<>> -> returns("ok", f)
          [] r.pc = "visit" /\ r.todo # <<>> ->
               With(Lstat(f, path), LAMBDA st :
               CASE st.err # "ok" -> returns(st.err, f)
                 [] st.kind = "dir" ->
                      With(ReadDirNames(f, path), LAMBDA names :
                      [run |-> [r EXCEPT !.todo = [i \in 1..Len(names) |-> Append(path, names[i])]
                                                    \o Tail(r.todo)],
                       fs |-> f])
                 [] OTHER ->
                      With(MkdirAll(f, Dir(targetPath)), LAMBDA m1 :
                      IF m1.err # "ok" THEN returns(m1.err, m1.fs)
                      ELSE goes("remove", m1.fs)))
          [] r.pc = "remove" ->
               With(RemoveAll(f, targetPath), LAMBDA rm :
               IF rm.err # "ok" THEN returns(rm.err, rm.fs) ELSE goes("symlink", rm.fs))
          [] r.pc = "symlink" ->
               With(Symlink(f, path, targetPath), LAMBDA sl :
               IF sl.err # "ok" THEN returns(sl.err, sl.fs)
               ELSE [run |-> [r EXCEPT !.pc = "visit", !.todo = Tail(r.todo)], fs |-> sl.fs])

\* No Link run is in progress.
Quiet == linkRuns = NoRuns

\* "dotman link" is started twice at the same time.
StartRace ==
    /\ Quiet
    /\ linkRuns' = [i \in Runners |->
                      [pc |-> "visit", todo |-> <<ConfigsDir>>, err |-> "ok",
                       alone |-> Link(fs).err]]
    /\ last' = Done("Link twice", <<>>, "ok", 0, {Occupant(fs, p) : p \in Tracked(fs)})
    /\ out' = <<>>
    /\ results' = <<>>
    /\ calls' = <<>>
    /\ UNCHANGED <<fs, cwd, gitDir, backups, clock>>

\* One of the runs takes its next step.
RaceStep ==
    \E i \in Runners :
      /\ linkRuns[i].pc \in {"visit", "remove", "symlink"}
      /\ \E r \in {LinkStep(linkRuns[i], fs)} :
            /\ fs' = r.fs
            /\ linkRuns' = [linkRuns EXCEPT ![i] = r.run]
      /\ UNCHANGED <<cwd, gitDir, backups, clock, last, out, results, calls>>

\* Both runs have returned.
BothDone == \A i \in Runners : linkRuns[i].pc = "done"

\* The two processes are gone.
EndRace ==
    /\ BothDone
    /\ linkRuns' = NoRuns
    /\ UNCHANGED <<fs, cwd, gitDir, backups, clock, last, out, results, calls>>

\* The store is set up while no Link runs.
QuietStep ==
    /\ Quiet
    /\ \/ DoAddWalk
       \/ UserCreateWalk
       \/ UserRemoveWalk
       \/ UserMkdir
       \/ UserSymlink

NextRace ==
    \/ StartRace
    \/ RaceStep
    \/ EndRace
    \/ QuietStep

\* Two Link runs side by side, their steps interleaved in every order.
SpecRace == Init /\ [][NextRace]_vars

TypeOK ==
    /\ \A p \in Paths : fs[p].kind \in {"none", "file", "dir", "link"}
    /\ \A p \in FixedDirs \ {ConfigsDir} : fs[p] = DirNode
    /\ \A p \in Paths : fs[p].kind # "none" /\ p # <<>> => fs[Dir(p)].kind = "dir"

---------------------------------------------------------------------------
(* Properties of Link, ListFiles and AddFile.                               *)

\* The mirrored path of stored path p is a symbolic link to exactly p.
LinkedTo(f, p) ==
    /\ Lstat(f, Mirror(p)).err = "ok"
    /\ Lstat(f, Mirror(p)).kind = "link"
    /\ Readlink(f, Mirror(p)).target = p

C2_ListFilesExact ==
    (last.op = "ListFiles" /\ last.err = "ok") =>
        /\ Range(out) = {Rel(ConfigsDir, p) : p \in Tracked(fs)}
        /\ Cardinality(Range(out)) = Len(out)
        /\ \A i \in 1..Len(out) : fs[ConfigsDir \o out[i]].kind # "dir"

\* ListFiles returned a top-level file and a file in a subdirectory.
C2_Witness ==
    /\ last.op = "ListFiles" /\ last.err = "ok"
    /\ out = << <<"a">>, <<"d", "a">> >>

\* C4: after AddFile(p) succeeds for an existing file p under the home
\* root, the store holds at the mirroring relative path a copy with the
\* bytes p had when AddFile was called, and ListFiles contains that path.
C4_AddFileStoresCopy ==
    (/\ last.op = "AddFile" /\ last.err = "ok"
     /\ IsPrefix(HomeDir, last.arg) /\ last.data \in Contents) =>
        LET relPath == Rel(HomeDir, last.arg)
        IN  /\ ReadFile(fs, ConfigsDir \o relPath) = [err |-> "ok", data |-> last.data]
            /\ relPath \in Range(ListFiles(fs).files)

\* C5: AddFile on an existing file outside the home root fails and writes
\* nothing.
C5_AddFileOutsideFails ==
    [][(/\ last'.op = "AddFile"
        /\ ~IsPrefix(HomeDir, last'.arg)
        /\ ReadFile(fs, last'.arg).err = "ok")
       => (last'.err # "ok" /\ fs' = fs)]_vars

---------------------------------------------------------------------------
(* Properties of the health checks.                                         *)

\* The result of a check that found nothing.
AllClear(r) == r.Severity = "info" /\ r.Error = "" /\ r.Items = <<>>

\* The mirrored path of stored path p does not exist.
Missing(f, p) == Lstat(f, Mirror(p)).err # "ok"

\* C6: if the mirrored path of some tracked file does not exist,
\* checkBrokenSymlinks returns a warning or an error that names the file;
\* if every mirrored path exists it returns the all-clear info result.
C6_BrokenLinksReported ==
    last.op = "checkBrokenSymlinks" =>
        /\ \A p \in Tracked(fs) :
             Missing(fs, p) => /\ results[1].Severity \in {"warning", "error"}
                               /\ RelOf(p) \in Range(results[1].Items)
        /\ (\A p \in Tracked(fs) : ~Missing(fs, p)) => AllClear(results[1])

\* C7: checkFileConflicts reports a tracked file exactly when its mirrored
\* path exists and is not a symbolic link to exactly the stored file.
C7_ConflictsExact ==
    last.op = "checkFileConflicts" =>
        \A p \in Tracked(fs) :
            RelOf(p) \in Range(results[1].Items)
              <=> (~Missing(fs, p) /\ ~LinkedTo(fs, p))

\* A scan over one tracked file with a regular file at its mirrored path
\* (reported) and one correctly linked (not reported).
C7_Witness ==
    /\ last.op = "checkFileConflicts"
    /\ last.before = {"file", "linked"}
    /\ Len(results[1].Items) = 1

---------------------------------------------------------------------------
(* Properties of backup and restore.                                        *)

\* C3: BackupFile(P) followed at once by RestoreBackup of the identifier
\* it made succeeds and leaves P readable with the bytes it had, and a
\* symbolic link (to the same target) iff it was one when backed up.
C3_BackupRestoreRoundTrip ==
    [][(/\ last.op = "BackupFile" /\ last.err = "ok"
        /\ last'.op = "RestoreBackup" /\ last'.id = last.id)
       => LET P == At(cwd, last.arg)
          IN  /\ last'.err = "ok"
              /\ ReadFile(fs', P) = [err |-> "ok", data |-> last.data]
              /\ Lstat(fs', P).kind = "link" <=> Lstat(fs, P).kind = "link"
              /\ Readlink(fs', P) = Readlink(fs, P)]_vars

\* A restore that followed at once the backup of a symbolic link, named
\* relative to the working directory, and succeeded.
C3_Witness ==
    /\ last.op = "RestoreBackup" /\ last.err = "ok"
    /\ last.before = {"just backed up", "link"}
    /\ ~last.arg.abs

---------------------------------------------------------------------------
(* Properties of the git bridge.                                            *)

\* The pushes among the commands of the last operation.
Pushes == Len(SelectSeq(calls, LAMBDA c : c = PushUpstream))

\* The last operation was an InitializeGitRepo that got as far as pushing.
ReachedPush ==
    /\ last.op = "InitializeGitRepo"
    /\ Len(calls) > Len(SetupCmds)

\* C8: InitializeGitRepo pushes at most 3 times; when the first two pushes
\* fail and the third succeeds it returns success after exactly three
\* pushes; when all three fail it returns the error that names 3 attempts,
\* having pushed exactly three times.
C8_PushRetry ==
    last.op = "InitializeGitRepo" =>
      /\ Pushes <= 3
      /\ ReachedPush /\ last.arg.push = <<FALSE, FALSE, TRUE>>
           => last.err = "ok" /\ Pushes = 3
      /\ ReachedPush /\ last.arg.push = <<FALSE, FALSE, FALSE>>
           => /\ last.err = "error pushing to GitHub after %d attempts"
              /\ last.data = 3
              /\ Pushes = 3

\* An InitializeGitRepo whose three pushes all failed.
C8_Witness ==
    /\ ReachedPush
    /\ last.arg.push = <<FALSE, FALSE, FALSE>>
    /\ last.err # "ok"

---------------------------------------------------------------------------
(* Properties of the health run.                                            *)

\* C9: HealthCheck returns an error iff at least one of the results of its
\* checks has a non-nil Error.
C9_FailsIffSomeError ==
    last.op = "HealthCheck" =>
      (last.err # "ok" <=> \E i \in 1..Len(results) : results[i].Error # "")

\* A full run of the eight checks that failed on a result of severity
\* warning whose Error is not nil.
C9_Witness ==
    /\ last.op = "HealthCheck"
    /\ last.err # "ok"
    /\ Len(results) = 8
    /\ \E i \in 1..Len(results) : results[i].Severity = "warning" /\ results[i].Error # ""

\* C10: a HealthCheck run all of whose results have severity info or
\* warning returns success.
C10_WarningsDoNotFail ==
    (/\ last.op = "HealthCheck"
     /\ \A i \in 1..Len(results) : results[i].Severity \in {"info", "warning"})
    => last.err = "ok"

---------------------------------------------------------------------------
(* Properties of initialization.                                            *)

\* C11: dotman init answered "y", with the author identity configured and
\* a clone that would succeed, is not rejected for the directories the
\* command itself made: it reaches "git clone".
C11_InitExistingReachesClone ==
    (last.op = "init existing" /\ last.arg.fail = 0) => "git clone" \in Range(calls)

\* C12: after InitializeFromExistingRepo returns success, the mirrored
\* path of every tracked file of the cloned store is a symbolic link to the
\* stored file.
C12_InitExistingLinksAll ==
    (last.op \in {"InitializeFromExistingRepo", "init existing"} /\ last.err = "ok")
        => \A p \in Tracked(fs) : LinkedTo(fs, p)

---------------------------------------------------------------------------
(* Properties of CommitAndPush and Update.                                  *)

\* C13: CommitAndPush runs stage-all, commit, push in this order and fails
\* fast: after a failed staging neither commit nor push is run, after a
\* failed commit no push is run, and it returns success only when all three
\* ran and none failed.
C13_CommitAndPushFailsFast ==
    last.op = "CommitAndPush" =>
      /\ \E k \in 0..3 : calls = SubSeq(<<"git add", "git commit", "git push">>, 1, k)
      /\ (gitDir /\ last.arg = 1) => (calls = <<"git add">> /\ last.err # "ok")
      /\ (gitDir /\ last.arg = 2) => (calls = <<"git add", "git commit">> /\ last.err # "ok")
      /\ (gitDir /\ last.arg = 3) => last.err # "ok"
      /\ last.err = "ok" => (calls = <<"git add", "git commit", "git push">> /\ last.arg = 0)

\* A CommitAndPush in a repository whose commit failed.
C13_Witness ==
    /\ last.op = "CommitAndPush"
    /\ gitDir
    /\ last.arg = 2
    /\ last.err = "error committing changes"

C15_IdentityRequired ==
    [][(/\ last'.op \in {"InitializeGitRepo", "InitializeFromExistingRepo"}
        /\ last'.arg.fail \in {1, 2})
       => /\ last'.err = <<"git user.name not configured",
                           "git user.email not configured">>[last'.arg.fail]
          /\ calls' = SubSeq(<<"git config user.name", "git config user.email">>,
                             1, last'.arg.fail)
          /\ fs' = fs
          /\ gitDir' = gitDir
          /\ backups' = backups]_vars

\* InitializeFromExistingRepo on an empty DotmanDir, refused for the e-mail.
C15_Witness ==
    /\ last.op = "InitializeFromExistingRepo"
    /\ last.arg.fail = 2
    /\ last.err = "git user.email not configured"
    /\ ~DotmanDirEntries(fs, gitDir, backups)

---------------------------------------------------------------------------
(* Frame properties.                                                        *)

\* C16: HealthCheck is read-only: it changes no tracked file, no path under
\* the home root outside the health directory, no backup and not the
\* repository; it writes at most the health directory and the snapshot of
\* this run in it.
C16_HealthCheckReadOnly ==
    [][last'.op = "HealthCheck" =>
         /\ \A p \in Paths \ {HealthDir, HealthFile(clock)} : fs'[p] = fs[p]
         /\ backups' = backups
         /\ gitDir' = gitDir]_vars

\* A HealthCheck that wrote its snapshot, run over a tracked file, a
\* repository and a backups directory.
C16_Witness ==
    /\ last.op = "HealthCheck"
    /\ fs[HealthFile(clock)].kind = "file"
    /\ Tracked(fs) # {}
    /\ gitDir
    /\ backups.exists

\* C17: Link leaves in place a regular file or a directory that it finds at
\* the mirrored path of a tracked file.
C17_LinkKeepsExistingFiles ==
    [][last'.op = "Link" =>
         \A p \in Tracked(fs) :
             Occupant(fs, p) \in {"file", "dir"} => Occupant(fs', p) = Occupant(fs, p)]_vars

---------------------------------------------------------------------------
(* Properties of the backups directory.                                     *)

\* The backup i has metadata that can be read and parsed.
WellFormed(bk, i) == bk.exists /\ bk.dirs[i].present /\ bk.dirs[i].meta = "json"

\* C18: ListBackups does not fail for a backup whose metadata is missing,
\* unreadable or malformed: it skips that backup and returns the metadata
\* of every backup with well-formed metadata exactly once.
C18_ListBackupsSkipsBad ==
    last.op = "ListBackups" =>
      /\ last.err = "ok"
      /\ \A i \in Ids :
           Cardinality({j \in 1..Len(out) : out[j].ID = i})
             = IF WellFormed(backups, i) THEN 1 ELSE 0
      /\ \A j \in 1..Len(out) :
           out[j].ID \in Ids /\ out[j] = Unmarshal(backups.dirs[out[j].ID].json)

\* A listing of two backups, of which one has damaged metadata.
C18_Witness ==
    /\ last.op = "ListBackups"
    /\ \A i \in Ids : backups.dirs[i].present
    /\ \E i \in Ids : backups.dirs[i].meta # "json"
    /\ Len(out) = 1

\* C19: RestoreBackup fails when the metadata of the backup is missing,
\* unreadable or malformed, or its content is missing or unreadable, and
\* then leaves the file system as it was.
C19_RestoreFailsOnDamage ==
    [][(/\ last'.op = "RestoreBackup"
        /\ \/ ~WellFormed(backups, last'.id)
           \/ backups.dirs[last'.id].content = 0)
       => (last'.err # "ok" /\ fs' = fs)]_vars

\* A restore of a backup whose metadata is whole and whose content file is
\* gone, with a file at the path the backup was made of.
C19_Witness ==
    /\ last.op = "RestoreBackup"
    /\ last.err = "failed to read backup content"
    /\ fs[HomeDir \o <<"a">>].kind = "file"

\* A backup that BackupFile wrote and nobody has touched since.
Written(bk, i) == WellFormed(bk, i) /\ bk.dirs[i].content # 0

\* C20 as stated: once BackupFile has written a backup, no run of the tool
\* (BackupFile, RestoreBackup, AddFile, Link, HealthCheck, ListBackups)
\* changes its content or its metadata.
C20_BackupImmutable ==
    [][\A i \in Ids :
         (Written(backups, i) /\ last'.op # "none")
             => backups'.dirs[i] = backups.dirs[i]]_vars

\* C20: once BackupFile has written a backup, the only run of the tool that
\* changes its content or its metadata is a BackupFile that succeeds within
\* the same second, and so under the same identifier; the backup is then
\* the one that run made.
C20_BackupImmutableButSameSecond ==
    [][\A i \in Ids :
         (Written(backups, i) /\ last'.op # "none"
            /\ backups'.dirs[i] # backups.dirs[i])
             => /\ last'.op = "BackupFile"
                /\ last'.err = "ok"
                /\ last'.id = i
                /\ clock = i
                /\ Written(backups', i)
                /\ backups'.dirs[i].content = last'.data]_vars

\* A second backup, made in a later second with other content: the first
\* one is still there as it was written.
C20_Witness ==
    /\ last.op = "BackupFile"
    /\ last.err = "ok"
    /\ last.id = 2
    /\ Written(backups, 1)
    /\ backups.dirs[1].content # backups.dirs[2].content

\* C21: the original path in the metadata of every backup is absolute, so
\* RestoreBackup does the same in every working directory: it writes where
\* the backup was taken from.
C21_OriginalPathAbsolute ==
    \A i \in Ids :
        Written(backups, i) =>
            /\ Unmarshal(backups.dirs[i].json).OriginalPath.abs
            /\ RestoreBackup(fs, backups, HomeDir, i)
                 = RestoreBackup(fs, backups, OutsideDir, i)

\* The runs of "git push" among the commands of the last operation.
PlainPushes == Len(SelectSeq(calls, LAMBDA c : c = "git push"))

\* C22: every push is retried up to maxRetries attempts and is fatal once
\* they are used up: a CommitAndPush or a Push whose push keeps failing has
\* pushed maxRetries times and returns an error, as InitializeGitRepo does.
C22_EveryPushRetried ==
    /\ (last.op = "CommitAndPush" /\ gitDir /\ last.arg = 3)
         => (PlainPushes = maxRetries /\ last.err # "ok")
    /\ (last.op = "Push" /\ gitDir /\ last.arg = FALSE)
         => (PlainPushes = maxRetries /\ last.err # "ok")
    /\ (ReachedPush /\ last.arg.push = [i \in 1..maxRetries |-> FALSE])
         => (Pushes = maxRetries /\ last.err # "ok")

\* The Status of each of the eight checks, in the order HealthCheck runs
\* them.
CheckOrder ==
    << "Symlink Check", "Permission Check", "Git Status", "Backup Check",
       "Conflict Check", "Outdated Check", "Disk Space", "File Changes" >>

\* C23: every HealthCheck run has exactly eight results, one per check, in
\* the order broken-symlink, permission, repository status, backup
\* integrity, conflict, staleness, disk space, pending changes, whatever
\* the earlier checks found.
C23_AllEightChecksRun ==
    last.op = "HealthCheck" =>
        /\ Len(results) = 8
        /\ \A i \in 1..8 : results[i].Status = CheckOrder[i]

\* A run whose first check failed and whose last check still reported.
C23_Witness ==
    /\ last.op = "HealthCheck"
    /\ results[1].Error # ""
    /\ results[3].Severity = "error"
    /\ Len(results) = 8
    /\ results[8].Status = "File Changes"

\* Some backup directory lacks its metadata or its content file.
MissingBackupParts(bk) ==
    bk.exists /\ \E i \in Ids :
        bk.dirs[i].present /\ (bk.dirs[i].meta = "missing" \/ bk.dirs[i].content = 0)

\* C24: a check that detects a structural defect returns severity error;
\* for the backup check, a backup directory that lacks its metadata or its
\* content makes the result of checkBackupIntegrity an error.
C24_MissingPartsAreErrors ==
    last.op = "HealthCheck" =>
        (MissingBackupParts(backups) => results[4].Severity = "error")

\* C25: when Link fails on one tracked file it returns at once: every file
\* that the walk reached before it is linked, the file itself is not, and
\* the mirrored path and the stored file of every file after it in the walk
\* are as they were.
C25_LinkStopsAtFailure ==
    [][(last'.op = "Link" /\ last'.err # "ok" /\ fs[ConfigsDir].kind = "dir")
       => LET w == WalkPath(fs, ConfigsDir)
          IN  \E k \in 1..Len(w) :
                /\ \A j \in 1..(k - 1) : LinkedTo(fs', w[j])
                /\ ~LinkedTo(fs', w[k])
                /\ \A j \in (k + 1)..Len(w) :
                     /\ fs'[Mirror(w[j])] = fs[Mirror(w[j])]
                     /\ fs'[w[j]] = fs[w[j]]]_vars

\* A Link that failed on the second of three tracked files: the first is
\* linked, and the regular file at the mirrored path of the third is there.
C25_Witness ==
    /\ last.op = "Link"
    /\ last.err # "ok"
    /\ Cardinality(Tracked(fs)) = 3
    /\ LinkedTo(fs, ConfigsDir \o <<"a">>)
    /\ "nothing" \in last.before
    /\ fs[LateHome].kind = "file"

C27_AddFileRepeatable ==
    [][\A p \in HomePaths :
         LET stored == Join(ConfigsDir, Rel(HomeDir, p))
         IN  (/\ last'.op = "AddFile" /\ last'.arg = p
              /\ Lstat(fs, p).kind = "link"
              /\ Readlink(fs, p).target = stored)
             => /\ ReadFile(fs', stored) = ReadFile(fs, stored)
                /\ Tracked(fs') = Tracked(fs)
                /\ Lstat(fs', p).kind = "link"
                /\ Readlink(fs', p).target = stored]_vars

\* AddFile succeeded on a path that was a symbolic link to its stored copy,
\* and the copy has its bytes.
C27_Witness ==
    /\ last.op = "AddFile" /\ last.err = "ok"
    /\ "linked" \in last.before
    /\ last.data \in Contents
    /\ ReadFile(fs, Join(ConfigsDir, Rel(HomeDir, last.arg))).data = last.data

\* The two runs are over, and each tracked file is linked.
AllLinked == \A p \in Tracked(fs) : LinkedTo(fs, p)

C29_RestoreAfterChanges ==
    [][(last'.op = "RestoreBackup" /\ last'.err = "ok")
       => LET d == backups.dirs[last'.id]
              P == At(cwd, Unmarshal(d.json).OriginalPath)
          IN  /\ ReadFile(fs', P) = [err |-> "ok", data |-> d.content]
              /\ Lstat(fs', P).kind = "link"
                   <=> Unmarshal(d.json).SymlinkPath # EmptyStr]_vars

\* C30: a RestoreBackup that succeeds changes the entry at the recorded
\* original path P and nothing else (but the missing parents of P, which it
\* makes): the bytes of every other file are as they were, those of the
\* file that a symbolic link at P points to included.
C30_RestoreFrame ==
    [][(last'.op = "RestoreBackup" /\ last'.err = "ok")
       => LET P == At(cwd, Unmarshal(backups.dirs[last'.id].json).OriginalPath)
          IN  \A q \in Paths \ {P} :
                fs[q].kind = "file" => fs'[q] = fs[q]]_vars

=============================================================================
